---------------------------- MODULE Spec2Model ----------------------------
(***************************************************************************)
(* The accounting ledger of manus-erp: AccountingService, the in-memory    *)
(* chart of accounts and journal of                                        *)
(* src/core_modules/accounting_module/accounting_service.py, and the way   *)
(* app.py shares one instance of it between request threads; and the       *)
(* stock-keeping part of SalesService, PurchaseService and ProductService,  *)
(* which keep their rows in PostgreSQL tables.                             *)
(*                                                                         *)
(* Amounts.  The service sums whatever numbers the JSON body carries and   *)
(* compares the sums after round(x, 2).  Amounts are modelled in fixed     *)
(* point, as integers counting thousandths of a currency unit (100000 is   *)
(* 100.000), so that rounding to 2 decimals is a real operation: Round2    *)
(* rounds to the nearest multiple of 10 thousandths, ties to even, as      *)
(* Python's round does.                                                    *)
(***************************************************************************)
EXTENDS Integers, Sequences, FiniteSets, TLC

VARIABLES
    chart_of_accounts,      \* self.chart_of_accounts: list of account dicts
    journal_entries,        \* self.journal_entries: list of entry dicts
    next_journal_entry_id,  \* self.next_journal_entry_id
    last,                   \* the call that was served last and what it returned
    pc,                     \* per request thread: where it stands in its handler
    frame,                  \* per request thread: the handler's local variables
    calls,                  \* number of calls the request threads have started
    products,               \* table products: sku -> the price and cost columns
    inventory_levels,       \* table inventory_levels: sku -> available_quantity
    sales_orders,           \* table sales_orders, in order of insertion
    sales_order_items,      \* table sales_order_items, in order of insertion
    purchase_orders,        \* table purchase_orders, in order of insertion
    purchase_order_items    \* table purchase_order_items, in order of insertion

\* The tables of the database.
tables == << products, inventory_levels, sales_orders, sales_order_items,
             purchase_orders, purchase_order_items >>

vars == << chart_of_accounts, journal_entries, next_journal_entry_id, last,
           pc, frame, calls, tables >>

---------------------------------------------------------------------------
(* Bounds of the model *)

\* Entries the journal may hold before the model stops posting.
MaxEntries == 3

\* Calls the interleaved request threads may start.
MaxCalls == 3

\* The request threads of the (threaded) Flask server.
Threads == {"t1", "t2"}

---------------------------------------------------------------------------
(* Inputs *)

\* A journal line as the JSON body gives it; debit or credit may be omitted.
L(a, d, c) == [account_id |-> a, debit |-> d, credit |-> c]
Ld(a, d) == [account_id |-> a, debit |-> d]
Lc(a, c) == [account_id |-> a, credit |-> c]

\* Lines of the calls the model makes (amounts in thousandths):
\*   a cash sale of 100.00, the spec's scenario;
\*   rent of 100.004 against 100.00: balanced only after rounding;
\*   100.00 against 90.00: unbalanced;
\*   100.40 against 100.00: unbalanced by less than one unit;
\*   balanced, second line on the unknown account 9999;
\*   unbalanced and first line on the unknown account 9999;
\*   balanced, both lines on unknown accounts;
\*   one line with a negative debit and the same negative credit;
\*   balanced, a valid line followed by lines on two unknown accounts;
\*   no lines.
EntryLines ==
    { << L("1010", 100000, 0), L("4010", 0, 100000) >>,
      << Ld("5050", 100004), Lc("1010", 100000) >>,
      << L("1010", 100000, 0), L("4010", 0, 90000) >>,
      << L("1010", 100400, 0), L("4010", 0, 100000) >>,
      << L("1010", 100000, 0), L("9999", 0, 100000) >>,
      << L("9999", 100000, 0), L("4010", 0, 90000) >>,
      << L("8888", 100000, 0), L("9999", 0, 100000) >>,
      << L("1010", -50000, -50000) >>,
      << L("1010", 100000, 0), L("8888", 0, 50000), L("9999", 0, 50000) >>,
      << >> }

Dates == {"", "2024-06-01"}
Descriptions == {"", "Cash sale"}

\* The calls of create_journal_entry: every list of lines under a date and a
\* description; every date with every description, empty ones too, for the
\* cash sale and for the unbalanced lines on an unknown account; and the cash
\* sale under a date that is no ISO date.
JournalCalls ==
    { << "2024-06-01", "Cash sale", entries >> : entries \in EntryLines }
        \cup { << date, description, entries >> :
                  date \in Dates, description \in Descriptions,
                  entries \in { << L("1010", 100000, 0), L("4010", 0, 100000) >>,
                                << L("9999", 100000, 0), L("4010", 0, 90000) >> } }
        \cup { << "not-a-date", "Cash sale",
                  << L("1010", 100000, 0), L("4010", 0, 100000) >> >> }

NewAccountIds == {"1010", "9999"}
NewAccountNames == {"X"}
NewAccountTypes == {"Asset", "Misc"}

\* Arguments of the read operations.
EntryIdQueries == {"JE0001", "JE0003", "JE9999"}
\* 2024-05-31 is the day before the date the postings carry, 2024-06-01 the
\* date itself.
AsOfDates == {"2024-05-31", "2024-12-31"}
Periods == { << "2024-01-01", "2024-06-01" >>, << "2024-01-01", "2024-12-31" >> }

---------------------------------------------------------------------------
(* AccountingService: pure parts *)

\* __init__: the seeded chart of accounts.
SeedChart ==
    << [account_id |-> "1010", account_name |-> "Cash", account_type |-> "Asset"],
       [account_id |-> "1200", account_name |-> "Accounts Receivable", account_type |-> "Asset"],
       [account_id |-> "2010", account_name |-> "Accounts Payable", account_type |-> "Liability"],
       [account_id |-> "3010", account_name |-> "Common Stock", account_type |-> "Equity"],
       [account_id |-> "4010", account_name |-> "Sales Revenue", account_type |-> "Revenue"],
       [account_id |-> "5010", account_name |-> "Cost of Goods Sold", account_type |-> "Expense"],
       [account_id |-> "5050", account_name |-> "Rent Expense", account_type |-> "Expense"] >>

\* e.get("debit", 0), e.get("credit", 0), entry_line.get("account_id")
GetDebit(e) == IF "debit" \in DOMAIN e THEN e.debit ELSE 0
GetCredit(e) == IF "credit" \in DOMAIN e THEN e.credit ELSE 0
GetAccountId(e) == IF "account_id" \in DOMAIN e THEN e.account_id ELSE "None"

\* sum(e.get("debit", 0) for e in entries)
RECURSIVE SumDebits(_)
SumDebits(entries) ==
    IF entries = << >> THEN 0
    ELSE GetDebit(Head(entries)) + SumDebits(Tail(entries))

\* sum(e.get("credit", 0) for e in entries)
RECURSIVE SumCredits(_)
SumCredits(entries) ==
    IF entries = << >> THEN 0
    ELSE GetCredit(Head(entries)) + SumCredits(Tail(entries))

\* round(x, 2) on thousandths: nearest multiple of 10, ties to even.
Round2(x) ==
    LET q == x \div 10
        r == x % 10
    IN  IF r < 5 THEN 10 * q
        ELSE IF r > 5 THEN 10 * (q + 1)
        ELSE IF q % 2 = 0 THEN 10 * q ELSE 10 * (q + 1)

\* round(x) with ndigits left out: nearest whole unit, ties to even.
Round0(x) ==
    LET q == x \div 1000
        r == x % 1000
    IN  IF r < 500 THEN 1000 * q
        ELSE IF r > 500 THEN 1000 * (q + 1)
        ELSE IF q % 2 = 0 THEN 1000 * q ELSE 1000 * (q + 1)

\* The balance check with the totals rounded to whole units.
IsBalancedWholeUnits(entries) ==
    Round0(SumDebits(entries)) = Round0(SumCredits(entries))

\* not (round(total_debits, 2) != round(total_credits, 2))
IsBalanced(entries) ==
    Round2(SumDebits(entries)) = Round2(SumCredits(entries))

\* The account test comparing names where it should compare ids.
AccountExistsByName(chart, account_id) ==
    \E i \in 1..Len(chart) : chart[i].account_name = account_id

\* any(acc["account_id"] == account_id for acc in self.chart_of_accounts)
AccountExists(chart, account_id) ==
    \E i \in 1..Len(chart) : chart[i].account_id = account_id

\* The account loop looking at the first line only.
InvalidLinesFirstOnly(chart, entries) ==
    { i \in 1..Len(entries) : i = 1 /\ ~AccountExists(chart, GetAccountId(entries[i])) }

\* The lines the loop over entries would find invalid.
InvalidLines(chart, entries) ==
    { i \in 1..Len(entries) : ~AccountExists(chart, GetAccountId(entries[i])) }

\* The greatest where the least is meant.
Max(S) == CHOOSE m \in S : \A n \in S : m >= n

Min(S) == CHOOSE m \in S : \A n \in S : m <= n

\* f"{n}" for n >= 0
DigitStr(d) ==
    CASE d = 0 -> "0" [] d = 1 -> "1" [] d = 2 -> "2" [] d = 3 -> "3"
      [] d = 4 -> "4" [] d = 5 -> "5" [] d = 6 -> "6" [] d = 7 -> "7"
      [] d = 8 -> "8" [] d = 9 -> "9"

RECURSIVE Decimal(_)
Decimal(n) ==
    IF n < 10 THEN DigitStr(n) ELSE Decimal(n \div 10) \o DigitStr(n % 10)

RECURSIVE ZeroPad(_, _)
ZeroPad(s, width) == IF Len(s) >= width THEN s ELSE ZeroPad("0" \o s, width)

\* f"JE{n:04d}"
FormatEntryId(n) == "JE" \o ZeroPad(Decimal(n), 4)

ErrMissing == [error |-> "Missing date, description, or entry lines."]
ErrUnbalanced == [error |-> "Debits do not equal credits."]
ErrInvalidAccount(account_id) ==
    [error |-> "Invalid account ID " \o account_id \o " in journal entry."]
ErrAccountExists(account_id) ==
    [error |-> "Account ID " \o account_id \o " already exists."]
Ok == [ok |-> TRUE]

IsError(result) == "error" \in DOMAIN result

\* The validation with the return of the balance branch left out.
ValidateNoReturnOnUnbalanced(chart, date, description, entries) ==
    IF date = "" \/ description = "" \/ entries = << >> THEN ErrMissing
    ELSE IF InvalidLines(chart, entries) # {}
         THEN ErrInvalidAccount(
                  GetAccountId(entries[Min(InvalidLines(chart, entries))]))
    ELSE Ok

\* The validation with the missing-field test after the other two.
ValidateMissingLast(chart, date, description, entries) ==
    IF ~IsBalanced(entries) THEN ErrUnbalanced
    ELSE IF InvalidLines(chart, entries) # {}
         THEN ErrInvalidAccount(
                  GetAccountId(entries[Min(InvalidLines(chart, entries))]))
    ELSE IF date = "" \/ description = "" \/ entries = << >> THEN ErrMissing
    ELSE Ok

\* The validation with the account loop before the balance check.
ValidateAccountsFirst(chart, date, description, entries) ==
    IF date = "" \/ description = "" \/ entries = << >> THEN ErrMissing
    ELSE IF InvalidLines(chart, entries) # {}
         THEN ErrInvalidAccount(
                  GetAccountId(entries[Min(InvalidLines(chart, entries))]))
    ELSE IF ~IsBalanced(entries) THEN ErrUnbalanced
    ELSE Ok

\* create_journal_entry up to the account loop: the error it returns, or Ok.
Validate(chart, date, description, entries) ==
    IF date = "" \/ description = "" \/ entries = << >> THEN ErrMissing
    ELSE IF ~IsBalanced(entries) THEN ErrUnbalanced
    ELSE IF InvalidLines(chart, entries) # {}
         THEN ErrInvalidAccount(
                  GetAccountId(entries[Min(InvalidLines(chart, entries))]))
    ELSE Ok

\* The entry built with the rounded totals of the balance check.
NewJournalEntryRoundedTotals(entry_id, date, description, entries) ==
    [ journal_entry_id |-> entry_id,
      date |-> date,
      description |-> description,
      lines |-> entries,
      total_debits |-> Round2(SumDebits(entries)),
      total_credits |-> Round2(SumCredits(entries)) ]

\* The dict create_journal_entry builds and appends.
NewJournalEntry(entry_id, date, description, entries) ==
    [ journal_entry_id |-> entry_id,
      date |-> date,
      description |-> description,
      lines |-> entries,
      total_debits |-> SumDebits(entries),
      total_credits |-> SumCredits(entries) ]

\* The id generator without its increment.
GenerateNoIncrement(n) == [entry_id |-> FormatEntryId(n), next |-> n]

\* _generate_journal_entry_id: the id it returns and the counter it leaves.
GenerateJournalEntryId(n) == [entry_id |-> FormatEntryId(n), next |-> n + 1]


\* create_journal_entry drawing the id before it validates.
CreateJournalEntryEagerId(chart, journal, next, date, description, entries) ==
    LET g == GenerateJournalEntryId(next)
        v == Validate(chart, date, description, entries)
        e == NewJournalEntry(g.entry_id, date, description, entries)
    IN  IF IsError(v)
        THEN [result |-> v, journal_entries |-> journal, next |-> g.next]
        ELSE [result |-> e, journal_entries |-> Append(journal, e), next |-> g.next]

\* create_journal_entry putting the new entry first (insert(0, ...)).
CreateJournalEntryPrepend(chart, journal, next, date, description, entries) ==
    LET v == Validate(chart, date, description, entries)
        g == GenerateJournalEntryId(next)
        e == NewJournalEntry(g.entry_id, date, description, entries)
    IN  IF IsError(v)
        THEN [result |-> v, journal_entries |-> journal, next |-> next]
        ELSE [result |-> e, journal_entries |-> << e >> \o journal, next |-> g.next]

\* create_journal_entry as one call: what it returns, and the journal and the
\* counter it leaves.
CreateJournalEntryEffect(chart, journal, next, date, description, entries) ==
    LET v == Validate(chart, date, description, entries)
        g == GenerateJournalEntryId(next)
        e == NewJournalEntry(g.entry_id, date, description, entries)
    IN  IF IsError(v)
        THEN [result |-> v, journal_entries |-> journal, next |-> next]
        ELSE [result |-> e, journal_entries |-> Append(journal, e), next |-> g.next]

NewAccount(account_id, account_name, account_type) ==
    [account_id |-> account_id, account_name |-> account_name,
     account_type |-> account_type]

\* add_account overwriting the account that has the id.
AddAccountUpsert(chart, account_id, account_name, account_type) ==
    LET new == NewAccount(account_id, account_name, account_type)
    IN  IF AccountExists(chart, account_id)
        THEN [result |-> ErrAccountExists(account_id),
              chart |-> [i \in 1..Len(chart) |->
                            IF chart[i].account_id = account_id THEN new ELSE chart[i]]]
        ELSE [result |-> new, chart |-> Append(chart, new)]

\* add_account putting the new account first.
AddAccountPrepend(chart, account_id, account_name, account_type) ==
    LET new == NewAccount(account_id, account_name, account_type)
    IN  IF AccountExists(chart, account_id)
        THEN [result |-> ErrAccountExists(account_id), chart |-> chart]
        ELSE [result |-> new, chart |-> << new >> \o chart]

\* add_account as one call: what it returns and the chart it leaves.
AddAccountEffect(chart, account_id, account_name, account_type) ==
    LET new == NewAccount(account_id, account_name, account_type)
    IN  IF AccountExists(chart, account_id)
        THEN [result |-> ErrAccountExists(account_id), chart |-> chart]
        ELSE [result |-> new, chart |-> Append(chart, new)]

\* Python's None, as a result.
None == [none |-> TRUE]

\* The lookup that returns from the loop without comparing the id.
GetJournalEntryByIdUncompared(journal, journal_entry_id) ==
    IF journal = << >> THEN None ELSE journal[1]

\* get_journal_entry_by_id: the first stored entry with the id, or None.
GetJournalEntryById(journal, journal_entry_id) ==
    LET hits == { k \in 1..Len(journal) :
                    journal[k].journal_entry_id = journal_entry_id }
    IN  IF hits = {} THEN None ELSE journal[Min(hits)]

\* generate_trial_balance: the dict it returns.
TrialBalance(as_of_date) ==
    [report_name |-> "Trial Balance", as_of_date |-> as_of_date,
     status |-> "Placeholder - Not Implemented"]

\* generate_income_statement: the dict it returns.
IncomeStatement(start_date, end_date) ==
    [report_name |-> "Income Statement",
     period |-> start_date \o " to " \o end_date,
     status |-> "Placeholder - Not Implemented"]

\* generate_balance_sheet: the dict it returns.
BalanceSheet(as_of_date) ==
    [report_name |-> "Balance Sheet", as_of_date |-> as_of_date,
     status |-> "Placeholder - Not Implemented"]

---------------------------------------------------------------------------
(* The service called by one caller at a time *)

NoCall == [op |-> "none"]
NoFrame == [op |-> "none"]

Init ==
    /\ chart_of_accounts = SeedChart
    /\ journal_entries = << >>
    /\ next_journal_entry_id = 1
    /\ last = NoCall
    /\ pc = [t \in Threads |-> "idle"]
    /\ frame = [t \in Threads |-> NoFrame]
    /\ calls = 0
    /\ products = << >>
    /\ inventory_levels = << >>
    /\ sales_orders = << >>
    /\ sales_order_items = << >>
    /\ purchase_orders = << >>
    /\ purchase_order_items = << >>

create_journal_entry(date, description, entries) ==
    LET eff == CreateJournalEntryEffect(chart_of_accounts, journal_entries,
                   next_journal_entry_id, date, description, entries)
    IN  /\ IsError(eff.result) \/ Len(journal_entries) < MaxEntries
        /\ journal_entries' = eff.journal_entries
        /\ next_journal_entry_id' = eff.next
        /\ last' = [op |-> "create_journal_entry", date |-> date,
                    description |-> description, entries |-> entries,
                    result |-> eff.result]
        /\ UNCHANGED << chart_of_accounts, pc, frame, calls, tables >>

add_account(account_id, account_name, account_type) ==
    LET eff == AddAccountEffect(chart_of_accounts, account_id, account_name,
                                account_type)
    IN  /\ chart_of_accounts' = eff.chart
        /\ last' = [op |-> "add_account", account_id |-> account_id,
                    account_name |-> account_name, account_type |-> account_type,
                    result |-> eff.result]
        /\ UNCHANGED << journal_entries, next_journal_entry_id, pc, frame, calls,
                        tables >>

\* The operations that only read: each leaves the service as it was.

get_chart_of_accounts ==
    /\ last' = [op |-> "get_chart_of_accounts", result |-> chart_of_accounts]
    /\ UNCHANGED << chart_of_accounts, journal_entries, next_journal_entry_id,
                    pc, frame, calls, tables >>

\* The journal listed newest first.
get_all_journal_entries_newest_first ==
    /\ last' = [op |-> "get_all_journal_entries",
                result |-> [k \in 1..Len(journal_entries) |->
                               journal_entries[Len(journal_entries) + 1 - k]]]
    /\ UNCHANGED << chart_of_accounts, journal_entries, next_journal_entry_id,
                    pc, frame, calls, tables >>

get_all_journal_entries ==
    /\ last' = [op |-> "get_all_journal_entries", result |-> journal_entries]
    /\ UNCHANGED << chart_of_accounts, journal_entries, next_journal_entry_id,
                    pc, frame, calls, tables >>

get_journal_entry_by_id(journal_entry_id) ==
    /\ last' = [op |-> "get_journal_entry_by_id",
                journal_entry_id |-> journal_entry_id,
                result |-> GetJournalEntryById(journal_entries, journal_entry_id)]
    /\ UNCHANGED << chart_of_accounts, journal_entries, next_journal_entry_id,
                    pc, frame, calls, tables >>

generate_trial_balance(as_of_date) ==
    /\ last' = [op |-> "generate_trial_balance", as_of_date |-> as_of_date,
                result |-> TrialBalance(as_of_date)]
    /\ UNCHANGED << chart_of_accounts, journal_entries, next_journal_entry_id,
                    pc, frame, calls, tables >>

generate_income_statement(start_date, end_date) ==
    /\ last' = [op |-> "generate_income_statement", start_date |-> start_date,
                end_date |-> end_date,
                result |-> IncomeStatement(start_date, end_date)]
    /\ UNCHANGED << chart_of_accounts, journal_entries, next_journal_entry_id,
                    pc, frame, calls, tables >>

\* A balance sheet that draws a journal entry id for itself.
generate_balance_sheet_numbered(as_of_date) ==
    /\ last' = [op |-> "generate_balance_sheet", as_of_date |-> as_of_date,
                result |-> BalanceSheet(as_of_date)]
    /\ next_journal_entry_id'
           = GenerateJournalEntryId(next_journal_entry_id).next
    /\ UNCHANGED << chart_of_accounts, journal_entries, pc, frame, calls,
                    tables >>

generate_balance_sheet(as_of_date) ==
    /\ last' = [op |-> "generate_balance_sheet", as_of_date |-> as_of_date,
                result |-> BalanceSheet(as_of_date)]
    /\ UNCHANGED << chart_of_accounts, journal_entries, next_journal_entry_id,
                    pc, frame, calls, tables >>

Next ==
    \/ \E c \in JournalCalls : create_journal_entry(c[1], c[2], c[3])
    \/ \E account_id \in NewAccountIds, account_name \in NewAccountNames,
          account_type \in NewAccountTypes :
           add_account(account_id, account_name, account_type)
    \/ get_chart_of_accounts
    \/ get_all_journal_entries
    \/ \E journal_entry_id \in EntryIdQueries :
           get_journal_entry_by_id(journal_entry_id)
    \/ \E as_of_date \in AsOfDates : generate_trial_balance(as_of_date)
    \/ \E p \in Periods : generate_income_statement(p[1], p[2])
    \/ \E as_of_date \in AsOfDates : generate_balance_sheet(as_of_date)

Spec == Init /\ [][Next]_vars

---------------------------------------------------------------------------
(* The service shared by the request threads of app.py: no lock is taken   *)
(* anywhere, so the handlers interleave between their reads and writes of  *)
(* the shared lists and of the counter.  Validation only reads, and the    *)
(* chart only grows, so a call's validation is one step.                   *)

\* create_journal_entry, lines 44-58, failing: the error is returned.
reject_journal_entry(t, date, description, entries) ==
    /\ pc[t] = "idle"
    /\ calls < MaxCalls
    /\ IsError(Validate(chart_of_accounts, date, description, entries))
    /\ calls' = calls + 1
    /\ UNCHANGED << chart_of_accounts, journal_entries, next_journal_entry_id,
                    last, pc, frame, tables >>

\* create_journal_entry, lines 44-58, passing: the call goes on to line 60.
validate_journal_entry(t, date, description, entries) ==
    /\ pc[t] = "idle"
    /\ calls < MaxCalls
    /\ ~IsError(Validate(chart_of_accounts, date, description, entries))
    /\ calls' = calls + 1
    /\ pc' = [pc EXCEPT ![t] = "read_counter"]
    /\ frame' = [frame EXCEPT ![t] =
                    [op |-> "create_journal_entry", date |-> date,
                     description |-> description, entries |-> entries]]
    /\ UNCHANGED << chart_of_accounts, journal_entries, next_journal_entry_id, last,
                    tables >>

\* _generate_journal_entry_id, line 37: entry_id = f"JE{self.next_journal_entry_id:04d}"
read_counter(t) ==
    /\ pc[t] = "read_counter"
    /\ pc' = [pc EXCEPT ![t] = "increment_counter"]
    /\ frame' = [frame EXCEPT ![t] =
                    [op |-> "create_journal_entry", date |-> frame[t].date,
                     description |-> frame[t].description,
                     entries |-> frame[t].entries,
                     entry_id |-> FormatEntryId(next_journal_entry_id)]]
    /\ UNCHANGED << chart_of_accounts, journal_entries, next_journal_entry_id,
                    last, calls, tables >>

\* _generate_journal_entry_id, line 38: self.next_journal_entry_id += 1, taken
\* as one step (a finer split into load and store only adds interleavings).
increment_counter(t) ==
    /\ pc[t] = "increment_counter"
    /\ next_journal_entry_id' = next_journal_entry_id + 1
    /\ pc' = [pc EXCEPT ![t] = "append_entry"]
    /\ UNCHANGED << chart_of_accounts, journal_entries, last, frame, calls,
                    tables >>

\* The append done before the entry is complete: the dict goes into the
\* journal with its id, date and description, its lines and totals to follow.
append_entry_torn(t) ==
    /\ pc[t] = "append_entry"
    /\ journal_entries' = Append(journal_entries,
           [journal_entry_id |-> frame[t].entry_id, date |-> frame[t].date,
            description |-> frame[t].description])
    /\ pc' = [pc EXCEPT ![t] = "idle"]
    /\ frame' = [frame EXCEPT ![t] = NoFrame]
    /\ UNCHANGED << chart_of_accounts, next_journal_entry_id, last, calls,
                    tables >>

\* create_journal_entry, lines 60-70: build the entry, append it, return it.
append_entry(t) ==
    /\ pc[t] = "append_entry"
    /\ journal_entries' = Append(journal_entries,
           NewJournalEntry(frame[t].entry_id, frame[t].date,
                           frame[t].description, frame[t].entries))
    /\ pc' = [pc EXCEPT ![t] = "idle"]
    /\ frame' = [frame EXCEPT ![t] = NoFrame]
    /\ UNCHANGED << chart_of_accounts, next_journal_entry_id, last, calls,
                    tables >>

\* add_account, lines 28-30: the id is found, the error is returned.
reject_account(t, account_id, account_name, account_type) ==
    /\ pc[t] = "idle"
    /\ calls < MaxCalls
    /\ AccountExists(chart_of_accounts, account_id)
    /\ calls' = calls + 1
    /\ UNCHANGED << chart_of_accounts, journal_entries, next_journal_entry_id,
                    last, pc, frame, tables >>

\* add_account, line 28: the id is not found, the call goes on to line 31.
check_account(t, account_id, account_name, account_type) ==
    /\ pc[t] = "idle"
    /\ calls < MaxCalls
    /\ ~AccountExists(chart_of_accounts, account_id)
    /\ calls' = calls + 1
    /\ pc' = [pc EXCEPT ![t] = "append_account"]
    /\ frame' = [frame EXCEPT ![t] =
                    [op |-> "add_account", account_id |-> account_id,
                     account_name |-> account_name, account_type |-> account_type]]
    /\ UNCHANGED << chart_of_accounts, journal_entries, next_journal_entry_id, last,
                    tables >>

\* add_account, lines 31-34: build the account, append it, return it.
append_account(t) ==
    /\ pc[t] = "append_account"
    /\ chart_of_accounts' = Append(chart_of_accounts,
           NewAccount(frame[t].account_id, frame[t].account_name,
                      frame[t].account_type))
    /\ pc' = [pc EXCEPT ![t] = "idle"]
    /\ frame' = [frame EXCEPT ![t] = NoFrame]
    /\ UNCHANGED << journal_entries, next_journal_entry_id, last, calls,
                    tables >>

\* get_all_journal_entries, line 74, served by a request thread between any
\* two steps of the others: one read of the shared list.
read_all_journal_entries(t) ==
    /\ pc[t] = "idle"
    /\ calls < MaxCalls
    /\ calls' = calls + 1
    /\ last' = [op |-> "get_all_journal_entries", result |-> journal_entries]
    /\ UNCHANGED << chart_of_accounts, journal_entries, next_journal_entry_id,
                    pc, frame, tables >>

\* get_journal_entry_by_id, lines 78-82, served by a request thread between
\* any two steps of the others.
read_journal_entry_by_id(t, journal_entry_id) ==
    /\ pc[t] = "idle"
    /\ calls < MaxCalls
    /\ calls' = calls + 1
    /\ last' = [op |-> "get_journal_entry_by_id",
                journal_entry_id |-> journal_entry_id,
                result |-> GetJournalEntryById(journal_entries, journal_entry_id)]
    /\ UNCHANGED << chart_of_accounts, journal_entries, next_journal_entry_id,
                    pc, frame, tables >>

NextConc ==
    \E t \in Threads :
        \/ read_all_journal_entries(t)
        \/ \E journal_entry_id \in EntryIdQueries :
               read_journal_entry_by_id(t, journal_entry_id)
        \/ \E c \in JournalCalls :
               \/ reject_journal_entry(t, c[1], c[2], c[3])
               \/ validate_journal_entry(t, c[1], c[2], c[3])
        \/ read_counter(t)
        \/ increment_counter(t)
        \/ append_entry(t)
        \/ \E account_id \in NewAccountIds, account_name \in NewAccountNames,
              account_type \in NewAccountTypes :
               \/ reject_account(t, account_id, account_name, account_type)
               \/ check_account(t, account_id, account_name, account_type)
        \/ append_account(t)

SpecConc == Init /\ [][NextConc]_vars

---------------------------------------------------------------------------
(* The id generator late in the life of the process.  It reads and writes  *)
(* the counter alone (lines 36-40), so it is run here from the counter     *)
(* values that some 9900 to 10050 successful postings leave behind, with   *)
(* the journal those postings filled left out of the picture.              *)

\* The last counter value the generator is run from.
MaxCounter == 10050

Counters == (MaxCounter - 150)..MaxCounter

InitIds ==
    /\ chart_of_accounts = SeedChart
    /\ journal_entries = << >>
    /\ next_journal_entry_id \in Counters
    /\ last = NoCall
    /\ pc = [t \in Threads |-> "idle"]
    /\ frame = [t \in Threads |-> NoFrame]
    /\ calls = 0
    /\ products = << >>
    /\ inventory_levels = << >>
    /\ sales_orders = << >>
    /\ sales_order_items = << >>
    /\ purchase_orders = << >>
    /\ purchase_order_items = << >>

\* _generate_journal_entry_id
generate_journal_entry_id ==
    LET gen == GenerateJournalEntryId(next_journal_entry_id)
    IN  /\ next_journal_entry_id <= MaxCounter
        /\ next_journal_entry_id' = gen.next
        /\ last' = [op |-> "_generate_journal_entry_id",
                    counter |-> next_journal_entry_id,
                    result |-> gen.entry_id]
        /\ UNCHANGED << chart_of_accounts, journal_entries, pc, frame, calls,
                        tables >>

NextIds == generate_journal_entry_id

SpecIds == InitIds /\ [][NextIds]_vars

---------------------------------------------------------------------------
(* Stock keeping: ProductService.add_product, SalesService.record_sale,    *)
(* PurchaseService.record_purchase and update_purchase_status, called one  *)
(* at a time.  Every statement of these handlers is committed on its own   *)
(* (commit=True), and no handler takes a lock or opens a transaction       *)
(* around its statements.                                                  *)
(*                                                                         *)
(* A table is modelled by the columns the handlers compute with; products  *)
(* and inventory_levels are keyed by sku, one product per sku, where the   *)
(* database keys them by a serial product_id.  The customers and suppliers *)
(* tables, which record_sale and record_purchase fill before they look at  *)
(* the items, are left out.  Prices and costs are in thousandths, as the   *)
(* amounts of the ledger are.                                              *)

\* The database accepts this many orders of each kind before the model stops
\* recording.
MaxSales == 2
MaxPurchases == 2

\* The model stops receiving when a product's available_quantity would pass
\* this.
MaxStock == 6

Skus == {"A", "B"}

\* add_product calls: the sku, the opening quantity and the unit price.
ProductCalls == { << sku, quantity, 10000 >> : sku \in Skus, quantity \in {0, 5} }

\* add_product calls with the default quantity, 0.
DefaultProductCalls == { << sku, 0, 10000 >> : sku \in Skus }

\* An item of a sale as the JSON body gives it.
I(sku, quantity) == [sku |-> sku, quantity |-> quantity]

\* An item of a purchase; the cost_price may be omitted.
P(sku, quantity, cost_price) ==
    [sku |-> sku, quantity |-> quantity, cost_price |-> cost_price]
Pn(sku, quantity) == [sku |-> sku, quantity |-> quantity]

\* The calls of record_sale: customer_name, items, order_date_str.  The items
\* are 3 of A; 3 of A twice; 6 of A; 3 of A then 1 of B; 1 of B then 6 of A;
\* 1 of B; none.
SaleCalls ==
    { << "Acme", items, "2024-06-01" >> :
          items \in { << I("A", 3) >>,
                      << I("A", 3), I("A", 3) >>,
                      << I("A", 6) >>,
                      << I("A", 3), I("B", 1) >>,
                      << I("B", 1), I("A", 6) >>,
                      << I("B", 1) >>,
                      << >> } }
        \cup { << "", << I("A", 3) >>, "2024-06-01" >>,
               << "Acme", << I("A", 3) >>, "not-a-date" >> }

PurchaseStatuses == {"Ordered", "Received", "Cancelled"}

\* The calls of record_purchase: supplier_name, items, order_date_str, status.
PurchaseCalls ==
    { << "Supplies Ltd", items, "2024-06-01", status >> :
          items \in { << P("A", 2, 2000) >>,
                      << P("A", 2, 2000), P("B", 1, 2000) >> },
          status \in {"Ordered", "Received"} }
        \cup { << "Supplies Ltd", << Pn("A", 2) >>, "2024-06-01", "Received" >>,
               << "Supplies Ltd", << >>, "2024-06-01", "Ordered" >>,
               << "Supplies Ltd", << P("A", 2, 2000) >>, "not-a-date",
                  "Ordered" >> }

\* datetime.fromisoformat accepts the string.
FromIsoFormatAccepts(s) == s \in {"2024-06-01"}

\* str(n) of an integer.
IntStr(n) == IF n < 0 THEN "-" \o Decimal(0 - n) ELSE Decimal(n)

ErrMissingSale == [error |-> "Missing customer name, items, or order date"]
ErrSaleDate == [error |-> "Invalid order_date format. Use ISO format."]
ErrProductNotFound(sku) ==
    [error |-> "Product with SKU " \o sku \o " not found."]
ErrInsufficientStock(sku, available_quantity) ==
    [error |-> "Insufficient stock for SKU " \o sku \o ". Available: "
                  \o IntStr(available_quantity)]
ErrMissingPurchase == [error |-> "Missing supplier name, items, or order date"]
ErrPurchaseDate ==
    [error |-> "Invalid date format. Use ISO format for order_date and expected_delivery_date."]
ErrMissingCost(sku) == [error |-> "Missing cost_price for SKU " \o sku \o "."]

\* The product row joined with its inventory row, if both are there.
ProductKnown(prods, inventory, sku) ==
    sku \in DOMAIN prods /\ sku \in DOMAIN inventory

\* The rows of a table that belong to one order.
RowsOf(rows, key, id) == SelectSeq(rows, LAMBDA r : r[key] = id)

\* get_product_by_sku
GetProductBySku(prods, inventory, sku) ==
    [sku |-> sku, unit_price |-> prods[sku].unit_price,
     average_cost |-> prods[sku].average_cost,
     quantity |-> inventory[sku]]

\* get_sale_by_id
GetSaleById(orders, order_items, order_id) ==
    LET hits == { k \in 1..Len(orders) : orders[k].order_id = order_id }
    IN  IF hits = {} THEN None
        ELSE [order_id |-> order_id,
              total_amount |-> orders[Min(hits)].total_amount,
              status |-> orders[Min(hits)].status,
              items |-> RowsOf(order_items, "order_id", order_id)]

\* get_purchase_by_id
GetPurchaseById(orders, order_items, po_id) ==
    LET hits == { k \in 1..Len(orders) : orders[k].po_id = po_id }
    IN  IF hits = {} THEN None
        ELSE [po_id |-> po_id,
              total_amount |-> orders[Min(hits)].total_amount,
              status |-> orders[Min(hits)].status,
              items |-> RowsOf(order_items, "po_id", po_id)]

\* The price of a sale item: its own "price", or the product's unit_price.
ItemPrice(prods, item) ==
    IF "price" \in DOMAIN item THEN item.price ELSE prods[item.sku].unit_price

\* record_sale, lines 125-145: the items that fail the loop's tests, against
\* the stock as the loop reads it.
FailingItems(prods, inventory, items) ==
    { n \in 1..Len(items) :
        \/ ~ProductKnown(prods, inventory, items[n].sku)
        \/ items[n].quantity > inventory[items[n].sku] }

\* The error of the first failing item.
SaleItemError(prods, inventory, items) ==
    LET item == items[Min(FailingItems(prods, inventory, items))]
    IN  IF ~ProductKnown(prods, inventory, item.sku)
        THEN ErrProductNotFound(item.sku)
        ELSE ErrInsufficientStock(item.sku, inventory[item.sku])

\* total_amount over the first n items.
RECURSIVE SaleTotal(_, _, _)
SaleTotal(prods, items, n) ==
    IF n = 0 THEN 0
    ELSE SaleTotal(prods, items, n - 1)
             + items[n].quantity * ItemPrice(prods, items[n])

\* Lines 182-187 for the first n items: each UPDATE takes the item's quantity
\* off the available_quantity the row has by then.
RECURSIVE Decremented(_, _, _)
Decremented(inventory, items, n) ==
    IF n = 0 THEN inventory
    ELSE [Decremented(inventory, items, n - 1) EXCEPT
              ![items[n].sku] = @ - items[n].quantity]

\* Lines 172-179: the rows inserted for the items of an order.
SaleItemRows(prods, order_id, items) ==
    [n \in 1..Len(items) |->
        [order_id |-> order_id, sku |-> items[n].sku,
         quantity |-> items[n].quantity,
         unit_price |-> ItemPrice(prods, items[n]),
         line_total |-> items[n].quantity * ItemPrice(prods, items[n])]]

\* The order_id the serial column gives the next row.
NextOrderId(orders) == Len(orders) + 1

\* A record_sale that inserts the order first and then tests, inserts and
\* decrements item by item.
RecordSaleItemByItem(prods, inventory, orders, order_items, customer_name, items, order_date_str, status) ==
    LET same(result) ==
            [result |-> result, inventory_levels |-> inventory,
             sales_orders |-> orders, sales_order_items |-> order_items]
        order_id == NextOrderId(orders)
        failing == FailingItems(prods, inventory, items)
        done == IF failing = {} THEN Len(items) ELSE Min(failing) - 1
        new_orders ==
            Append(orders,
                   [order_id |-> order_id,
                    total_amount |-> SaleTotal(prods, items, done),
                    status |-> status])
        new_items ==
            order_items \o SaleItemRows(prods, order_id, SubSeq(items, 1, done))
    IN  IF customer_name = "" \/ items = << >> \/ order_date_str = ""
        THEN same(ErrMissingSale)
        ELSE IF ~FromIsoFormatAccepts(order_date_str) THEN same(ErrSaleDate)
        ELSE [result |-> IF failing # {}
                         THEN SaleItemError(prods, inventory, items)
                         ELSE GetSaleById(new_orders, new_items, order_id),
              inventory_levels |-> Decremented(inventory, items, done),
              sales_orders |-> new_orders,
              sales_order_items |-> new_items]

\* record_sale: what it returns and the tables it leaves.
RecordSaleEffect(prods, inventory, orders, order_items, customer_name, items, order_date_str, status) ==
    LET same(result) ==
            [result |-> result, inventory_levels |-> inventory,
             sales_orders |-> orders, sales_order_items |-> order_items]
        order_id == NextOrderId(orders)
        new_orders ==
            Append(orders,
                   [order_id |-> order_id,
                    total_amount |-> SaleTotal(prods, items, Len(items)),
                    status |-> status])
        new_items == order_items \o SaleItemRows(prods, order_id, items)
    IN  IF customer_name = "" \/ items = << >> \/ order_date_str = ""
        THEN same(ErrMissingSale)
        ELSE IF ~FromIsoFormatAccepts(order_date_str) THEN same(ErrSaleDate)
        ELSE IF FailingItems(prods, inventory, items) # {}
        THEN same(SaleItemError(prods, inventory, items))
        ELSE [result |-> GetSaleById(new_orders, new_items, order_id),
              inventory_levels |-> Decremented(inventory, items, Len(items)),
              sales_orders |-> new_orders,
              sales_order_items |-> new_items]

\* _update_inventory_and_costs_on_receive: the inventory row after line 197.
ReceivedInventory(inventory, sku, quantity_received) ==
    IF sku \in DOMAIN inventory
    THEN [inventory EXCEPT ![sku] = @ + quantity_received]
    ELSE inventory

\* _update_inventory_and_costs_on_receive, lines 200-215: the product row with
\* its new costs.  The division is exact for the costs the model purchases at.
ReceivedProducts(prods, inventory, sku, quantity_received, unit_cost) ==
    IF ~ProductKnown(prods, inventory, sku) THEN prods
    ELSE LET old_avg_cost == prods[sku].average_cost
             current_total_quantity ==
                 ReceivedInventory(inventory, sku, quantity_received)[sku]
             old_total_quantity ==
                 IF current_total_quantity - quantity_received < 0 THEN 0
                 ELSE current_total_quantity - quantity_received
             new_avg_cost ==
                 IF current_total_quantity > 0
                 THEN ((old_avg_cost * old_total_quantity)
                          + (unit_cost * quantity_received))
                      \div current_total_quantity
                 ELSE unit_cost
         IN  [prods EXCEPT ![sku].last_purchase_price = unit_cost,
                           ![sku].average_cost = new_avg_cost]

\* The receipt of the first n rows of an order, one after the other: the
\* products and inventory_levels tables it leaves.
RECURSIVE ReceiveAll(_, _, _, _)
ReceiveAll(prods, inventory, rows, n) ==
    IF n = 0 THEN [products |-> prods, inventory_levels |-> inventory]
    ELSE LET before == ReceiveAll(prods, inventory, rows, n - 1)
         IN  [products |->
                  ReceivedProducts(before.products, before.inventory_levels,
                                   rows[n].sku, rows[n].quantity,
                                   rows[n].unit_cost),
              inventory_levels |->
                  ReceivedInventory(before.inventory_levels, rows[n].sku,
                                    rows[n].quantity)]

\* record_purchase, lines 128-146: the items that fail the loop's tests.
FailingPurchaseItems(prods, items) ==
    { n \in 1..Len(items) :
        \/ items[n].sku \notin DOMAIN prods
        \/ "cost_price" \notin DOMAIN items[n] }

PurchaseItemError(prods, items) ==
    LET item == items[Min(FailingPurchaseItems(prods, items))]
    IN  IF item.sku \notin DOMAIN prods THEN ErrProductNotFound(item.sku)
        ELSE ErrMissingCost(item.sku)

RECURSIVE PurchaseTotal(_, _)
PurchaseTotal(items, n) ==
    IF n = 0 THEN 0
    ELSE PurchaseTotal(items, n - 1) + items[n].quantity * items[n].cost_price

\* Lines 170-177: the rows inserted for the items of a purchase order.
PurchaseItemRows(po_id, items) ==
    [n \in 1..Len(items) |->
        [po_id |-> po_id, sku |-> items[n].sku,
         quantity |-> items[n].quantity,
         unit_cost |-> items[n].cost_price,
         line_total |-> items[n].quantity * items[n].cost_price]]

\* record_purchase: what it returns and the tables it leaves.
RecordPurchaseEffect(prods, inventory, orders, order_items, supplier_name, items, order_date_str, status) ==
    LET same(result) ==
            [result |-> result, products |-> prods,
             inventory_levels |-> inventory,
             purchase_orders |-> orders, purchase_order_items |-> order_items]
        po_id == NextOrderId(orders)
        new_orders ==
            Append(orders,
                   [po_id |-> po_id,
                    total_amount |-> PurchaseTotal(items, Len(items)),
                    status |-> status])
        rows == PurchaseItemRows(po_id, items)
        new_items == order_items \o rows
        received ==
            IF status = "Received"
            THEN ReceiveAll(prods, inventory, rows, Len(rows))
            ELSE [products |-> prods, inventory_levels |-> inventory]
    IN  IF supplier_name = "" \/ items = << >> \/ order_date_str = ""
        THEN same(ErrMissingPurchase)
        ELSE IF ~FromIsoFormatAccepts(order_date_str)
        THEN same(ErrPurchaseDate)
        ELSE IF FailingPurchaseItems(prods, items) # {}
        THEN same(PurchaseItemError(prods, items))
        ELSE [result |-> GetPurchaseById(new_orders, new_items, po_id),
              products |-> received.products,
              inventory_levels |-> received.inventory_levels,
              purchase_orders |-> new_orders,
              purchase_order_items |-> new_items]

\* update_purchase_status: what it returns and the tables it leaves.
UpdatePurchaseStatusEffect(prods, inventory, orders, order_items, po_id, new_status) ==
    LET current_po == GetPurchaseById(orders, order_items, po_id)
        new_orders ==
            [k \in 1..Len(orders) |->
                IF orders[k].po_id = po_id
                THEN [orders[k] EXCEPT !.status = new_status]
                ELSE orders[k]]
        received ==
            IF new_status = "Received" /\ current_po.status # "Received"
            THEN ReceiveAll(prods, inventory, current_po.items,
                            Len(current_po.items))
            ELSE [products |-> prods, inventory_levels |-> inventory]
    IN  IF current_po = None
        THEN [result |-> None, products |-> prods,
              inventory_levels |-> inventory, purchase_orders |-> orders]
        ELSE [result |-> GetPurchaseById(new_orders, order_items, po_id),
              products |-> received.products,
              inventory_levels |-> received.inventory_levels,
              purchase_orders |-> new_orders]

\* The state of the ledger, which the stock handlers never touch.
ledger == << chart_of_accounts, journal_entries, next_journal_entry_id,
             pc, frame, calls >>

add_product(sku, quantity, unit_price) ==
    /\ sku \notin DOMAIN products
    /\ products' = products @@ (sku :> [unit_price |-> unit_price,
                                        average_cost |-> 0,
                                        last_purchase_price |-> None])
    /\ inventory_levels' = inventory_levels @@ (sku :> quantity)
    /\ last' = [op |-> "add_product", sku |-> sku, quantity |-> quantity,
                result |-> GetProductBySku(products', inventory_levels', sku)]
    /\ UNCHANGED << ledger, sales_orders, sales_order_items, purchase_orders,
                    purchase_order_items >>

record_sale(customer_name, items, order_date_str) ==
    LET eff == RecordSaleEffect(products, inventory_levels, sales_orders,
                   sales_order_items, customer_name, items, order_date_str,
                   "Pending")
    IN  /\ IsError(eff.result) \/ Len(sales_orders) < MaxSales
        /\ inventory_levels' = eff.inventory_levels
        /\ sales_orders' = eff.sales_orders
        /\ sales_order_items' = eff.sales_order_items
        /\ last' = [op |-> "record_sale", customer_name |-> customer_name,
                    items |-> items, order_date_str |-> order_date_str,
                    result |-> eff.result]
        /\ UNCHANGED << ledger, products, purchase_orders,
                        purchase_order_items >>

NextSales ==
    \/ \E c \in ProductCalls : add_product(c[1], c[2], c[3])
    \/ \E c \in SaleCalls : record_sale(c[1], c[2], c[3])

SpecSales == Init /\ [][NextSales]_vars

record_purchase(supplier_name, items, order_date_str, status) ==
    LET eff == RecordPurchaseEffect(products, inventory_levels,
                   purchase_orders, purchase_order_items, supplier_name,
                   items, order_date_str, status)
    IN  /\ IsError(eff.result) \/ Len(purchase_orders) < MaxPurchases
        /\ \A sku \in DOMAIN eff.inventory_levels :
               eff.inventory_levels[sku] <= MaxStock
        /\ products' = eff.products
        /\ inventory_levels' = eff.inventory_levels
        /\ purchase_orders' = eff.purchase_orders
        /\ purchase_order_items' = eff.purchase_order_items
        /\ last' = [op |-> "record_purchase", supplier_name |-> supplier_name,
                    items |-> items, order_date_str |-> order_date_str,
                    status |-> status, result |-> eff.result]
        /\ UNCHANGED << ledger, sales_orders, sales_order_items >>

update_purchase_status(po_id, new_status) ==
    LET eff == UpdatePurchaseStatusEffect(products, inventory_levels,
                   purchase_orders, purchase_order_items, po_id, new_status)
    IN  /\ \A sku \in DOMAIN eff.inventory_levels :
               eff.inventory_levels[sku] <= MaxStock
        /\ products' = eff.products
        /\ inventory_levels' = eff.inventory_levels
        /\ purchase_orders' = eff.purchase_orders
        /\ last' = [op |-> "update_purchase_status", po_id |-> po_id,
                    new_status |-> new_status, result |-> eff.result]
        /\ UNCHANGED << ledger, sales_orders, sales_order_items,
                        purchase_order_items >>

NextPurchases ==
    \/ \E c \in DefaultProductCalls : add_product(c[1], c[2], c[3])
    \/ \E c \in PurchaseCalls : record_purchase(c[1], c[2], c[3], c[4])
    \/ \E po_id \in 1..(MaxPurchases + 1), new_status \in PurchaseStatuses :
           update_purchase_status(po_id, new_status)

SpecPurchases == Init /\ [][NextPurchases]_vars

---------------------------------------------------------------------------
(* Properties *)

Unique(seq, key(_)) ==
    \A i, j \in 1..Len(seq) : key(seq[i]) = key(seq[j]) => i = j

EntryIdOf(e) == e.journal_entry_id
AccountIdOf(a) == a.account_id

LastIsJournalCall == last.op = "create_journal_entry"
LastIsAccountCall == last.op = "add_account"

\* C1: every entry stored in the journal has its debits and its credits equal
\* after each total is rounded to 2 decimals, both as summed over its lines
\* and as stored in total_debits and total_credits.
C1_BalanceInvariant ==
    \A k \in 1..Len(journal_entries) :
        LET e == journal_entries[k]
        IN  /\ Round2(SumDebits(e.lines)) = Round2(SumCredits(e.lines))
            /\ Round2(e.total_debits) = Round2(e.total_credits)

\* An entry whose totals differ before rounding is stored, after another
\* entry and after an account was added.
C1_Witness ==
    /\ Len(journal_entries) >= 2
    /\ Len(chart_of_accounts) > Len(SeedChart)
    /\ \E k \in 1..Len(journal_entries) :
           journal_entries[k].total_debits # journal_entries[k].total_credits

\* C2: every account_id a line of a stored entry refers to is the id of an
\* account of the chart.
C2_ReferentialIntegrity ==
    \A k \in 1..Len(journal_entries) :
        \A n \in 1..Len(journal_entries[k].lines) :
            \E a \in 1..Len(chart_of_accounts) :
                /\ "account_id" \in DOMAIN journal_entries[k].lines[n]
                /\ chart_of_accounts[a].account_id =
                       journal_entries[k].lines[n].account_id

\* An entry is stored with a line on account 9999, which is not seeded: it
\* was added before the posting.
C2_Witness ==
    \E k \in 1..Len(journal_entries) :
        \E n \in 1..Len(journal_entries[k].lines) :
            journal_entries[k].lines[n].account_id = "9999"

\* C3: a create_journal_entry call whose rounded totals differ returns an
\* error and leaves the journal, the chart and the counter as they were.
C3_UnbalancedRejectionAtomic ==
    [][ ( /\ last'.op = "create_journal_entry"
          /\ Round2(SumDebits(last'.entries)) # Round2(SumCredits(last'.entries)) )
        => ( /\ IsError(last'.result)
             /\ journal_entries' = journal_entries
             /\ chart_of_accounts' = chart_of_accounts
             /\ next_journal_entry_id' = next_journal_entry_id ) ]_vars

\* The call of 100.00 against 90.00, with date and description, was refused
\* as unbalanced while the journal held entries.
C3_Witness ==
    /\ LastIsJournalCall
    /\ last.date # "" /\ last.description # ""
    /\ SumDebits(last.entries) = 100000 /\ SumCredits(last.entries) = 90000
    /\ last.result = ErrUnbalanced
    /\ Len(journal_entries) >= 1

\* C4: a balanced create_journal_entry call with a line on an account that is
\* not in the chart returns an error, appends nothing and consumes no id.
C4_UnknownAccountRejection ==
    [][ ( /\ last'.op = "create_journal_entry"
          /\ Round2(SumDebits(last'.entries)) = Round2(SumCredits(last'.entries))
          /\ \E n \in 1..Len(last'.entries) :
                 \A a \in 1..Len(chart_of_accounts) :
                     chart_of_accounts[a].account_id # GetAccountId(last'.entries[n]) )
        => ( /\ IsError(last'.result)
             /\ journal_entries' = journal_entries
             /\ chart_of_accounts' = chart_of_accounts
             /\ next_journal_entry_id' = next_journal_entry_id ) ]_vars

\* A balanced call with a line on 9999 was refused for that account, after
\* an entry had been posted.
C4_Witness ==
    /\ LastIsJournalCall
    /\ last.result = ErrInvalidAccount("9999")
    /\ Len(journal_entries) >= 1
    /\ next_journal_entry_id = Len(journal_entries) + 1

\* C5: add_account with an id that is in the chart returns an error and leaves
\* the chart as it was: one account has the id, with its name and type.
C5_DuplicateAccountRejection ==
    [][ ( /\ last'.op = "add_account"
          /\ \E a \in 1..Len(chart_of_accounts) :
                 chart_of_accounts[a].account_id = last'.account_id )
        => ( /\ IsError(last'.result)
             /\ chart_of_accounts' = chart_of_accounts
             /\ Cardinality({ a \in 1..Len(chart_of_accounts') :
                    chart_of_accounts'[a].account_id = last'.account_id }) = 1 ) ]_vars

\* add_account("1010", "X", ...) was refused and 1010 is still Cash.
C5_Witness ==
    /\ LastIsAccountCall
    /\ last.account_id = "1010" /\ last.account_name = "X"
    /\ last.result = ErrAccountExists("1010")
    /\ chart_of_accounts[1] = SeedChart[1]

\* C6: no two accounts of the chart have the same account_id.
C6_AccountIdsUnique == Unique(chart_of_accounts, AccountIdOf)

\* The chart has grown and a later add_account of an id it holds was refused.
C6_Witness ==
    /\ Len(chart_of_accounts) > Len(SeedChart)
    /\ LastIsAccountCall
    /\ last.account_id = "9999"
    /\ IsError(last.result)

\* C7: the k-th stored entry has the id formed from k (JE0001, JE0002,
\* JE0003, ...), the counter is the number of stored entries plus 1, and no id
\* is stored twice.
C7_IdSequence ==
    /\ next_journal_entry_id = Len(journal_entries) + 1
    /\ \A k \in 1..Len(journal_entries) :
           /\ journal_entries[k].journal_entry_id = FormatEntryId(k)
           /\ k = 1 => journal_entries[k].journal_entry_id = "JE0001"
           /\ k = 2 => journal_entries[k].journal_entry_id = "JE0002"
           /\ k = 3 => journal_entries[k].journal_entry_id = "JE0003"
    /\ Unique(journal_entries, EntryIdOf)

\* Three entries are stored and the last call was a refused posting.
C7_Witness ==
    /\ Len(journal_entries) = 3
    /\ LastIsJournalCall
    /\ IsError(last.result)

\* C8: under interleaved create_journal_entry calls no two stored entries
\* have the same journal_entry_id.
C8_NoDuplicateIdsConcurrent ==
    \A i, j \in 1..Len(journal_entries) :
        i # j => journal_entries[i].journal_entry_id # journal_entries[j].journal_entry_id

\* C9: under interleaved create_journal_entry calls the entry at position k
\* carries the id of sequence number k, and a call that is about to read the
\* counter never finds it advanced for an entry that is not in the journal.
C9_IdAssignmentAndAppendIndivisible ==
    /\ \A k \in 1..Len(journal_entries) :
           journal_entries[k].journal_entry_id = FormatEntryId(k)
    /\ \A t \in Threads :
           pc[t] = "read_counter" =>
               next_journal_entry_id = Len(journal_entries) + 1

\* C10: under interleaved add_account calls the chart never holds two
\* accounts with one id.
C10_AddAccountAtomicConcurrent ==
    \A id \in NewAccountIds :
        Cardinality({ a \in 1..Len(chart_of_accounts) :
                        chart_of_accounts[a].account_id = id }) <= 1


\* The keys of a stored entry.
EntryKeys ==
    {"journal_entry_id", "date", "description", "lines", "total_debits",
     "total_credits"}

\* An entry that is whole and that the three checks of create_journal_entry
\* would pass against the chart as it is now.
WholeAndChecked(e) ==
    /\ DOMAIN e = EntryKeys
    /\ e.journal_entry_id # "" /\ e.date # "" /\ e.description # ""
    /\ e.lines # << >>
    /\ Round2(SumDebits(e.lines)) = Round2(SumCredits(e.lines))
    /\ \A n \in 1..Len(e.lines) :
           \E a \in 1..Len(chart_of_accounts) :
               chart_of_accounts[a].account_id = GetAccountId(e.lines[n])

\* C11: under interleaved postings and reads, every entry in the journal and
\* every entry a read returned is whole (id, date, description, lines, both
\* totals) and has passed the missing-field, balance and account checks.
C11_NoTornEntryObservable ==
    /\ \A k \in 1..Len(journal_entries) : WholeAndChecked(journal_entries[k])
    /\ last.op = "get_all_journal_entries" =>
           \A k \in 1..Len(last.result) : WholeAndChecked(last.result[k])
    /\ (last.op = "get_journal_entry_by_id" /\ last.result # None) =>
           WholeAndChecked(last.result)

\* A read returned a stored entry while another posting had drawn its id and
\* not yet appended.
C11_Witness ==
    /\ last.op = "get_journal_entry_by_id"
    /\ last.result # None
    /\ \E t \in Threads : pc[t] = "append_entry"


\* C12: a create_journal_entry call with an empty date, an empty description
\* or no lines gets the missing-field error, whatever its lines are, and
\* nothing is stored.
C12_MissingFieldFirst ==
    [][ ( /\ last'.op = "create_journal_entry"
          /\ (last'.date = "" \/ last'.description = "" \/ last'.entries = << >>) )
        => ( /\ last'.result = ErrMissing
             /\ journal_entries' = journal_entries
             /\ chart_of_accounts' = chart_of_accounts
             /\ next_journal_entry_id' = next_journal_entry_id ) ]_vars

\* A call without a date, unbalanced and with a line on the unknown account
\* 9999, got the missing-field error while the journal held an entry.
C12_Witness ==
    /\ LastIsJournalCall
    /\ last.date = ""
    /\ Round2(SumDebits(last.entries)) # Round2(SumCredits(last.entries))
    /\ \E n \in 1..Len(last.entries) : last.entries[n].account_id = "9999"
    /\ \A a \in 1..Len(chart_of_accounts) : chart_of_accounts[a].account_id # "9999"
    /\ last.result = ErrMissing
    /\ Len(journal_entries) >= 1

\* Whether line n of entries is on an account that is not in chart.
UnknownLine(chart, entries, n) ==
    \A a \in 1..Len(chart) : chart[a].account_id # GetAccountId(entries[n])

\* C13: a complete, balanced create_journal_entry call with lines on accounts
\* that are not in the chart gets the error naming the account of the first
\* such line in line order.
C13_FirstInvalidReported ==
    [][ ( /\ last'.op = "create_journal_entry"
          /\ last'.date # "" /\ last'.description # ""
          /\ Round2(SumDebits(last'.entries)) = Round2(SumCredits(last'.entries))
          /\ \E n \in 1..Len(last'.entries) :
                 UnknownLine(chart_of_accounts, last'.entries, n) )
        => ( \E n \in 1..Len(last'.entries) :
                 /\ UnknownLine(chart_of_accounts, last'.entries, n)
                 /\ \A m \in 1..(n - 1) :
                        ~UnknownLine(chart_of_accounts, last'.entries, m)
                 /\ last'.result =
                        ErrInvalidAccount(GetAccountId(last'.entries[n])) ) ]_vars

\* A call whose first line is valid and whose second and third lines are on
\* the unknown accounts 8888 and 9999 was refused for 8888.
C13_Witness ==
    /\ LastIsJournalCall
    /\ Len(last.entries) = 3
    /\ ~UnknownLine(chart_of_accounts, last.entries, 1)
    /\ UnknownLine(chart_of_accounts, last.entries, 2)
    /\ UnknownLine(chart_of_accounts, last.entries, 3)
    /\ last.result = ErrInvalidAccount("8888")

\* C14: a successful create_journal_entry extends the journal by the entry it
\* returns, at the end; every other operation leaves the journal as it was. So
\* the journal before a step is a prefix of the journal after it and no
\* stored entry changes.
C14_JournalAppendOnly ==
    [][ /\ IF last'.op = "create_journal_entry" /\ ~IsError(last'.result)
           THEN journal_entries' = Append(journal_entries, last'.result)
           ELSE journal_entries' = journal_entries
        /\ Len(journal_entries') >= Len(journal_entries)
        /\ \A k \in 1..Len(journal_entries) :
               journal_entries'[k] = journal_entries[k] ]_vars

\* A report was generated over a journal of two entries.
C14_Witness ==
    /\ Len(journal_entries) = 2
    /\ last.op = "generate_trial_balance"

\* C15: a successful add_account extends the chart by the account it was
\* given, at the end; every other operation leaves the chart as it was. So
\* the chart before a step is a prefix of the chart after it and every
\* account keeps its id, name and type.
C15_ChartAppendOnly ==
    [][ /\ IF last'.op = "add_account" /\ ~IsError(last'.result)
           THEN /\ chart_of_accounts' = Append(chart_of_accounts, last'.result)
                /\ last'.result = [account_id |-> last'.account_id,
                                   account_name |-> last'.account_name,
                                   account_type |-> last'.account_type]
           ELSE chart_of_accounts' = chart_of_accounts
        /\ Len(chart_of_accounts') >= Len(chart_of_accounts)
        /\ \A a \in 1..Len(chart_of_accounts) :
               chart_of_accounts'[a] = chart_of_accounts[a] ]_vars

\* An entry was posted after the chart had grown, and the seeded accounts
\* are where they were.
C15_Witness ==
    /\ Len(chart_of_accounts) = Len(SeedChart) + 1
    /\ LastIsJournalCall
    /\ ~IsError(last.result)
    /\ \A a \in 1..Len(SeedChart) : chart_of_accounts[a] = SeedChart[a]

\* The ISO-8601 dates among the dates the calls carry.
IsoDates == {"2024-01-01", "2024-05-31", "2024-06-01", "2024-12-31"}

\* C16: every stored entry has a well-formed (ISO-8601) date: a call with a
\* malformed date stores nothing.
C16_MalformedDatesRejected ==
    \A k \in 1..Len(journal_entries) : journal_entries[k].date \in IsoDates

\* The account types of the spec.
AccountTypes == {"Asset", "Liability", "Equity", "Revenue", "Expense"}

\* C17: every account of the chart has one of the five account types.
C17_AccountTypeDomain ==
    \A a \in 1..Len(chart_of_accounts) :
        chart_of_accounts[a].account_type \in AccountTypes

\* C18: every line of every stored entry has debit >= 0 and credit >= 0.
C18_LineAmountsNonNegative ==
    \A k \in 1..Len(journal_entries) :
        \A n \in 1..Len(journal_entries[k].lines) :
            /\ GetDebit(journal_entries[k].lines[n]) >= 0
            /\ GetCredit(journal_entries[k].lines[n]) >= 0

\* The sum, over the first n lines, of the amounts under key; a line without
\* the key counts 0.
RECURSIVE AmountUpTo(_, _, _)
AmountUpTo(lines, key, n) ==
    IF n = 0 THEN 0
    ELSE AmountUpTo(lines, key, n - 1)
             + (IF key \in DOMAIN lines[n] THEN lines[n][key] ELSE 0)

\* C19: for every stored entry, total_debits is the sum of the debits of its
\* lines and total_credits the sum of the credits, an omitted side counting 0.
C19_StoredTotalsAreLineSums ==
    \A k \in 1..Len(journal_entries) :
        LET e == journal_entries[k]
        IN  /\ e.total_debits = AmountUpTo(e.lines, "debit", Len(e.lines))
            /\ e.total_credits = AmountUpTo(e.lines, "credit", Len(e.lines))

\* An entry is stored whose lines each omit one side and whose debit total is
\* 100.004, which rounding would change.
C19_Witness ==
    \E k \in 1..Len(journal_entries) :
        /\ \E n \in 1..Len(journal_entries[k].lines) :
               "credit" \notin DOMAIN journal_entries[k].lines[n]
        /\ \E n \in 1..Len(journal_entries[k].lines) :
               "debit" \notin DOMAIN journal_entries[k].lines[n]
        /\ journal_entries[k].total_debits = 100004
        /\ journal_entries[k].total_credits = 100000

\* The day an ISO date names, as the number yyyymmdd.
DateNumber(d) ==
    CASE d = "2024-01-01" -> 20240101
      [] d = "2024-05-31" -> 20240531
      [] d = "2024-06-01" -> 20240601
      [] d = "2024-12-31" -> 20241231

\* The lines of the stored entries, each as << entry, line >>.
PostedLines ==
    UNION { { << k, n >> : n \in 1..Len(journal_entries[k].lines) } :
              k \in 1..Len(journal_entries) }

\* The accounts that appear in a line of a stored entry.
PostedAccountIds ==
    { GetAccountId(journal_entries[p[1]].lines[p[2]]) : p \in PostedLines }

\* The sum of the amounts under key of the lines in ps.
RECURSIVE PostedAmount(_, _)
PostedAmount(ps, key) ==
    IF ps = {} THEN 0
    ELSE LET p == CHOOSE q \in ps : TRUE
             line == journal_entries[p[1]].lines[p[2]]
         IN  (IF key \in DOMAIN line THEN line[key] ELSE 0)
                 + PostedAmount(ps \ {p}, key)

\* The posted lines on one account.
LinesOn(account_id) ==
    { p \in PostedLines :
          GetAccountId(journal_entries[p[1]].lines[p[2]]) = account_id }

\* C20: generate_trial_balance(as_of_date), with as_of_date not earlier than
\* the date of any stored entry, returns one row per account that appears in a
\* posted line, with that account's summed debits and credits, and the rows'
\* debits and credits sum to the same total.
C20_TrialBalanceGlobalBalance ==
    ( /\ last.op = "generate_trial_balance"
      /\ Len(journal_entries) >= 1
      /\ \A k \in 1..Len(journal_entries) :
             /\ journal_entries[k].date \in IsoDates
             /\ DateNumber(journal_entries[k].date) <= DateNumber(last.as_of_date) )
    => ( /\ "rows" \in DOMAIN last.result
         /\ Len(last.result.rows) = Cardinality(PostedAccountIds)
         /\ \A id \in PostedAccountIds :
                \E i \in 1..Len(last.result.rows) :
                    /\ last.result.rows[i].account_id = id
                    /\ last.result.rows[i].total_debit =
                           PostedAmount(LinesOn(id), "debit")
                    /\ last.result.rows[i].total_credit =
                           PostedAmount(LinesOn(id), "credit")
         /\ AmountUpTo(last.result.rows, "total_debit", Len(last.result.rows))
                = AmountUpTo(last.result.rows, "total_credit",
                             Len(last.result.rows)) )

\* The type of the account with the id, as the chart has it.
AccountTypeOf(account_id) ==
    LET hits == { a \in 1..Len(chart_of_accounts) :
                    chart_of_accounts[a].account_id = account_id }
    IN  chart_of_accounts[Min(hits)].account_type

\* The stored entries dated from start_date to end_date, both included.
EntriesWithin(start_date, end_date) ==
    { k \in 1..Len(journal_entries) :
        /\ journal_entries[k].date \in IsoDates
        /\ DateNumber(start_date) <= DateNumber(journal_entries[k].date)
        /\ DateNumber(journal_entries[k].date) <= DateNumber(end_date) }

\* The stored entries dated as_of_date or earlier.
EntriesUpTo(as_of_date) ==
    { k \in 1..Len(journal_entries) :
        /\ journal_entries[k].date \in IsoDates
        /\ DateNumber(journal_entries[k].date) <= DateNumber(as_of_date) }

\* The lines of the entries ks that are on an account of the type.
LinesOfType(account_type, ks) ==
    { p \in PostedLines :
        /\ p[1] \in ks
        /\ AccountExists(chart_of_accounts,
                         GetAccountId(journal_entries[p[1]].lines[p[2]]))
        /\ AccountTypeOf(GetAccountId(journal_entries[p[1]].lines[p[2]]))
               = account_type }

\* Credits less debits of the Revenue lines, debits less credits of the
\* Expense lines, of the entries ks.
TotalRevenue(ks) ==
    PostedAmount(LinesOfType("Revenue", ks), "credit")
        - PostedAmount(LinesOfType("Revenue", ks), "debit")
TotalExpense(ks) ==
    PostedAmount(LinesOfType("Expense", ks), "debit")
        - PostedAmount(LinesOfType("Expense", ks), "credit")

\* C21: generate_income_statement(start_date, end_date) reports total_revenue,
\* the credits less the debits on Revenue accounts, total_expense, the debits
\* less the credits on Expense accounts, both over the stored entries dated
\* within the range, and net_income = total_revenue - total_expense.
C21_IncomeStatementAggregation ==
    ( /\ last.op = "generate_income_statement"
      /\ \A k \in 1..Len(journal_entries) : journal_entries[k].date \in IsoDates )
    => LET ks == EntriesWithin(last.start_date, last.end_date)
       IN  /\ "total_revenue" \in DOMAIN last.result
           /\ "total_expense" \in DOMAIN last.result
           /\ "net_income" \in DOMAIN last.result
           /\ last.result.total_revenue = TotalRevenue(ks)
           /\ last.result.total_expense = TotalExpense(ks)
           /\ last.result.net_income = TotalRevenue(ks) - TotalExpense(ks)

\* The day after a date.
NextDay(d) == CASE d = "2024-05-31" -> "2024-06-01" [] OTHER -> "none"

\* C22: an entry dated exactly the upper bound of a report contributes to it
\* and an entry dated the day after the upper bound does not: with an entry
\* stored under end_date, the income statement's total_revenue counts the
\* entries up to end_date, that one included; with an entry stored under the
\* day after as_of_date, the trial balance's rows sum the debits of the
\* entries up to as_of_date only.
C22_DateBoundary ==
    /\ ( /\ last.op = "generate_income_statement"
         /\ \E k \in 1..Len(journal_entries) :
                journal_entries[k].date = last.end_date )
       => /\ "total_revenue" \in DOMAIN last.result
          /\ last.result.total_revenue
                 = TotalRevenue(EntriesWithin(last.start_date, last.end_date))
    /\ ( /\ last.op = "generate_trial_balance"
         /\ \E k \in 1..Len(journal_entries) :
                journal_entries[k].date = NextDay(last.as_of_date) )
       => /\ "rows" \in DOMAIN last.result
          /\ AmountUpTo(last.result.rows, "total_debit", Len(last.result.rows))
                 = PostedAmount({ p \in PostedLines :
                                     p[1] \in EntriesUpTo(last.as_of_date) },
                                "debit")

\* The three report generators.
ReportOps ==
    {"generate_trial_balance", "generate_income_statement",
     "generate_balance_sheet"}

\* What a report call returns, as its arguments alone determine it.
ReportOf(call) ==
    CASE call.op = "generate_trial_balance" -> TrialBalance(call.as_of_date)
      [] call.op = "generate_income_statement" ->
             IncomeStatement(call.start_date, call.end_date)
      [] call.op = "generate_balance_sheet" -> BalanceSheet(call.as_of_date)

\* C23: a call of generate_trial_balance, generate_income_statement or
\* generate_balance_sheet leaves the chart, the journal and the next-id counter
\* as they were, and what it returns is fixed by its arguments, so that the
\* same call in the same state returns the same result.
C23_ReportsReadOnly ==
    [][ last'.op \in ReportOps
        => /\ UNCHANGED << chart_of_accounts, journal_entries,
                           next_journal_entry_id >>
           /\ last'.result = ReportOf(last') ]_vars

\* A balance sheet was generated with an entry in the journal and an account
\* added to the chart.
C23_Witness ==
    /\ last.op = "generate_balance_sheet"
    /\ Len(journal_entries) >= 1
    /\ Len(chart_of_accounts) > Len(SeedChart)

\* C24: get_journal_entry_by_id(x) returns the stored entry whose
\* journal_entry_id is x when there is one and None when there is none; every
\* stored id, and the id a successful create_journal_entry has just returned,
\* looks up to the entry that carries it.
C24_LookupById ==
    /\ last.op = "get_journal_entry_by_id"
       => LET hits == { k \in 1..Len(journal_entries) :
                          journal_entries[k].journal_entry_id
                              = last.journal_entry_id }
          IN  IF hits = {} THEN last.result = None
              ELSE \E k \in hits : last.result = journal_entries[k]
    /\ \A k \in 1..Len(journal_entries) :
           GetJournalEntryById(journal_entries,
                               journal_entries[k].journal_entry_id)
               = journal_entries[k]
    /\ (LastIsJournalCall /\ ~IsError(last.result))
       => GetJournalEntryById(journal_entries, last.result.journal_entry_id)
              = last.result

\* The third entry was looked up and found behind two others.
C24_Witness ==
    /\ last.op = "get_journal_entry_by_id"
    /\ last.journal_entry_id = "JE0003"
    /\ Len(journal_entries) = 3
    /\ last.result = journal_entries[3]

\* C25: get_all_journal_entries returns the journal, and the journal is the
\* entries of the successful create_journal_entry calls in the order of the
\* calls: a successful call appends the entry it returns, a rejected call and
\* every other operation leave the journal as it was.
C25_InsertionOrder ==
    [][ /\ last'.op = "get_all_journal_entries"
           => last'.result = journal_entries
        /\ (last'.op = "create_journal_entry" /\ ~IsError(last'.result))
           => journal_entries' = Append(journal_entries, last'.result)
        /\ (last'.op = "create_journal_entry" /\ IsError(last'.result))
           => journal_entries' = journal_entries
        /\ last'.op # "create_journal_entry"
           => journal_entries' = journal_entries ]_vars

\* The journal was listed with two entries in it, in the order of their ids.
C25_Witness ==
    /\ last.op = "get_all_journal_entries"
    /\ Len(last.result) = 2
    /\ last.result[1].journal_entry_id = "JE0001"
    /\ last.result[2].journal_entry_id = "JE0002"
    /\ last.result[1] # last.result[2]

\* C26: a call with date, description and lines that is unbalanced and has a
\* line on an account not in the chart is rejected with the unbalanced error,
\* not with the unknown-account error.
C26_BalanceCheckBeforeAccountCheck ==
    ( /\ LastIsJournalCall
      /\ last.date # "" /\ last.description # "" /\ last.entries # << >>
      /\ Round2(AmountUpTo(last.entries, "debit", Len(last.entries)))
             # Round2(AmountUpTo(last.entries, "credit", Len(last.entries)))
      /\ \E n \in 1..Len(last.entries) :
             UnknownLine(chart_of_accounts, last.entries, n) )
    => last.result = ErrUnbalanced

\* An unbalanced call whose first line is on the unknown account 9999 was
\* made and rejected.
C26_Witness ==
    /\ LastIsJournalCall
    /\ last.date # "" /\ last.description # ""
    /\ last.entries = << L("9999", 100000, 0), L("4010", 0, 90000) >>
    /\ ~AccountExists(chart_of_accounts, "9999")
    /\ IsError(last.result)

\* "JE" followed by exactly four decimal digits.
FourDigitIds ==
    { "JE" \o DigitStr(a) \o DigitStr(b) \o DigitStr(c) \o DigitStr(d) :
          a \in 0..9, b \in 0..9, c \in 0..9, d \in 0..9 }

\* C27: every id the generator returns is "JE" followed by exactly four
\* decimal digits, whatever the counter, above 9999 too.
C27_IdIsFourDigits ==
    last.op = "_generate_journal_entry_id" => last.result \in FourDigitIds

\* C28: no sequence of record_sale calls takes a product's available_quantity
\* below zero, an order that lists one SKU in several items included.
C28_StockNeverNegative ==
    \A sku \in DOMAIN inventory_levels : inventory_levels[sku] >= 0

\* The quantity of a product over all the item rows of all purchase orders.
PurchasedQuantity(sku) ==
    LET rows == SelectSeq(purchase_order_items, LAMBDA r : r.sku = sku)
    IN  AmountUpTo(rows, "quantity", Len(rows))

\* C29: a purchase order is received into inventory at most once.  Products
\* start at quantity 0 and only receipts change the stock, so: no product's
\* available_quantity exceeds the quantity of its item rows, each counted
\* once.
C29_ReceivedAtMostOnce ==
    \A sku \in DOMAIN inventory_levels :
        inventory_levels[sku] <= PurchasedQuantity(sku)

\* record_sale returned the error of an item: unknown SKU or not enough stock.
ItemErrorReturned(call) ==
    /\ call.op = "record_sale"
    /\ IsError(call.result)
    /\ call.result \notin {ErrMissingSale, ErrSaleDate}

\* C30: a record_sale that returns an error because an item's SKU is unknown
\* or its quantity exceeds the available quantity has inserted no order row
\* and no item row and has changed no available_quantity, wherever the item
\* stands in the list.
C30_RejectedSaleChangesNothing ==
    [][ ItemErrorReturned(last')
        => UNCHANGED << inventory_levels, sales_orders, sales_order_items >>
      ]_vars

\* A sale of 1 of B, in stock, then 6 of A, of which there are 5, was rejected
\* for its second item, with an earlier order of 1 of B on file.
C30_Witness ==
    /\ ItemErrorReturned(last)
    /\ last.items = << I("B", 1), I("A", 6) >>
    /\ last.result = ErrInsufficientStock("A", 5)
    /\ Len(sales_orders) = 1
    /\ Len(sales_order_items) = 1
    /\ inventory_levels["B"] = 4

===========================================================================
